---- MODULE Spec2Model ----
(***************************************************************************)
(* Model of konstraint's "doc" command (internal/commands/doc.go).         *)
(*                                                                         *)
(* A Go string is modelled as a sequence of one-character strings, so     *)
(* that strings.Split, strings.Trim, strings.Contains, strings.Join and   *)
(* strings.EqualFold are computed character by character.                  *)
(***************************************************************************)
EXTENDS Integers, Sequences, FiniteSets, TLC

VARIABLES
    files,                \* the directory: sequence of rego files in walk order
    prevOut,              \* content of the output file before the run
    outFile,              \* content of the output file now
    writes,               \* number of ioutil.WriteFile calls made in this run
    pc,                   \* position of the run
    i,                    \* index of regoFilePath in the range loop (line 65)
    j,                    \* index of policyComment in the range loop (line 101)
    description,          \* var description (line 99)
    policyCommentBlocks,  \* var policyCommentBlocks of getPolicyCommentBlocks (line 100)
    docBlocks,            \* var policyCommentBlocks of getPolicyDocumentation (line 64)
    fileBlocks,           \* history: what getPolicyCommentBlocks returned for each file
    k,                    \* index of policyCommentBlock in the range loop (line 83)
    policyDocument,       \* policyDocument (line 79)
    result,               \* string returned by getPolicyDocumentation
    err,                  \* error returned, NoErr when none
    readLog,              \* history: indexes of the files given to ioutil.ReadFile
    parseLog,             \* history: indexes of the files given to the rego parser
    inGroups,             \* argument of a direct call of getDedupedGroups
    outGroups,            \* what that call returned
    outGroupsAgain        \* what getDedupedGroups returned for its own output

vars == <<files, prevOut, outFile, writes, pc, i, j, description,
          policyCommentBlocks, docBlocks, fileBlocks, k, policyDocument,
          result, err, readLog, parseLog, inGroups, outGroups, outGroupsAgain>>

-----------------------------------------------------------------------------
(* Bounds *)

MaxFiles == 2
MaxComments == 3
MaxGroups == 3

-----------------------------------------------------------------------------
(* Strings *)

LowerLetters == <<"a","b","c","d","e","f","g","h","i","j","k","l","m",
                  "n","o","p","q","r","s","t","u","v","w","x","y","z">>
UpperLetters == <<"A","B","C","D","E","F","G","H","I","J","K","L","M",
                  "N","O","P","Q","R","S","T","U","V","W","X","Y","Z">>

\* simple case folding of one character, as strings.EqualFold applies it
Fold(c) ==
    IF \E n \in 1..26 : UpperLetters[n] = c
    THEN LowerLetters[CHOOSE n \in 1..26 : UpperLetters[n] = c]
    ELSE c

\* strings.EqualFold(s, t)
EqualFold(s, t) ==
    /\ Len(s) = Len(t)
    /\ \A n \in 1..Len(s) : Fold(s[n]) = Fold(t[n])

\* strings.Contains(s, substr)
Contains(s, substr) ==
    \E n \in 0..(Len(s) - Len(substr)) : SubSeq(s, n + 1, n + Len(substr)) = substr

\* strings.Split(s, sep) for a one-character separator: all the pieces
\* between the occurrences of sep, empty pieces included
RECURSIVE Split(_, _)
Split(s, sep) ==
    IF \A n \in 1..Len(s) : s[n] # sep
    THEN <<s>>
    ELSE LET p == CHOOSE n \in 1..Len(s) :
                      /\ s[n] = sep
                      /\ \A m \in 1..(n - 1) : s[m] # sep
         IN  <<SubSeq(s, 1, p - 1)>> \o Split(SubSeq(s, p + 1, Len(s)), sep)

RECURSIVE TrimLeft(_, _)
TrimLeft(s, c) ==
    IF Len(s) > 0 /\ s[1] = c THEN TrimLeft(Tail(s), c) ELSE s

RECURSIVE TrimRight(_, _)
TrimRight(s, c) ==
    IF Len(s) > 0 /\ s[Len(s)] = c THEN TrimRight(SubSeq(s, 1, Len(s) - 1), c) ELSE s

\* strings.Trim(s, cutset) for a one-character cutset
Trim(s, c) == TrimRight(TrimLeft(s, c), c)

\* strings.Join(elems, sep)
RECURSIVE Join(_, _)
Join(elems, sep) ==
    IF Len(elems) = 0 THEN <<>>
    ELSE IF Len(elems) = 1 THEN elems[1]
    ELSE elems[1] \o sep \o Join(Tail(elems), sep)

-----------------------------------------------------------------------------
(* Dedup of the API groups *)

\* contains with an exact comparison in place of strings.EqualFold
containsExact(groups, group) ==
    \E n \in 1..Len(groups) : groups[n] = group

\* contains(groups, group)
contains(groups, group) ==
    \E n \in 1..Len(groups) : EqualFold(groups[n], group)

RECURSIVE DedupFrom(_, _)
DedupFrom(dedupedGroups, groups) ==
    IF Len(groups) = 0 THEN dedupedGroups
    ELSE IF ~contains(dedupedGroups, groups[1])
         THEN DedupFrom(Append(dedupedGroups, groups[1]), Tail(groups))
         ELSE DedupFrom(dedupedGroups, Tail(groups))

\* getDedupedGroups(groups)
getDedupedGroups(groups) == DedupFrom(<<>>, groups)

-----------------------------------------------------------------------------
(* Literals of the source *)

\* "@Kinds"
Marker == <<"@", "K", "i", "n", "d", "s">>

\* "# Policies\n\n"
TitleLine == <<"#", " ", "P", "o", "l", "i", "c", "i", "e", "s", "\n", "\n">>

\* "|API Groups|Kinds|Description|\n"
HeaderLine == <<"|", "A", "P", "I", " ", "G", "r", "o", "u", "p", "s", "|", "K", "i", "n", "d", "s", "|", "D", "e", "s", "c", "r", "i", "p", "t", "i", "o", "n", "|", "\n">>

\* "|---|---|---|\n"
SeparatorLine == <<"|", "-", "-", "-", "|", "-", "-", "-", "|", "-", "-", "-", "|", "\n">>

\* the fields of fmt.Sprintf("|%s|%s|%s|\n", ...) and of the strings.Join calls
Bar == <<"|">>
Newline == <<"\n">>
CommaSpace == <<",", " ">>

-----------------------------------------------------------------------------
(* Inputs: comment texts as the rego parser hands them over, that is the  *)
(* text of the comment after its leading '#'.                              *)

cDescA    == <<" ", "d", "A">>
cDescB    == <<"d", " ", "B", " ">>
cKinds    == <<" ", "@", "K", "i", "n", "d", "s", " ", "a", "p", "p", "s", "/", "P", "o", "d", " ", "c", "o", "r", "e", "/", "J", "o", "b">>
cKindsDup == <<" ", "@", "K", "i", "n", "d", "s", " ", "a", "p", "p", "s", "/", "P", "o", "d", " ", "A", "p", "p", "s", "/", "P", "o", "d">>
cSlashes  == <<" ", "@", "K", "i", "n", "d", "s", " ", "a", "/", "b", "/", "c">>
cMid      == <<"x", " ", "@", "K", "i", "n", "d", "s", " ", "c", "o", "r", "e", "/", "P", "o", "d">>
cTwo      == <<" ", "@", "K", "i", "n", "d", "s">>
cBare     == <<"@", "K", "i", "n", "d", "s">>
cNoSlash  == <<" ", "@", "K", "i", "n", "d", "s", " ", "a", "p", "p", "s">>
cDouble   == <<" ", "@", "K", "i", "n", "d", "s", " ", "a", "p", "p", "s", "/", "P", "o", "d", " ", " ", "c", "o", "r", "e", "/", "J", "o", "b">>

CommentPool ==
    {cDescA, cDescB, cKinds, cKindsDup, cSlashes, cMid, cTwo, cBare, cNoSlash, cDouble}

\* group names offered to getDedupedGroups
GroupPool == {<<"a", "p", "p", "s">>, <<"A", "p", "p", "s">>, <<"A", "P", "P", "S">>, <<"c", "o", "r", "e">>, <<"a", "p", "p">>}

RECURSIVE SeqsUpTo(_, _)
SeqsUpTo(S, n) ==
    IF n = 0 THEN {<<>>}
    ELSE LET shorter == SeqsUpTo(S, n - 1)
         IN  shorter \cup {Append(s, x) : s \in shorter, x \in S}

RegoFile(comments) == [readable |-> TRUE, syntaxOK |-> TRUE, comments |-> comments]

fUnreadable == [readable |-> FALSE, syntaxOK |-> TRUE, comments |-> <<>>]
fSyntaxErr  == [readable |-> TRUE, syntaxOK |-> FALSE, comments |-> <<cDescA, cKinds>>]
fTwoBlocks  == RegoFile(<<cDescA, cKinds, cDescB, cKindsDup>>)
fMarkerOnly == RegoFile(<<cSlashes>>)
fDescOnly   == RegoFile(<<cDescB>>)
fNoComment  == RegoFile(<<>>)
fNoSlash    == RegoFile(<<cDescA, cNoSlash>>)

FilePool ==
    {fUnreadable, fSyntaxErr, fTwoBlocks, fMarkerOnly, fDescOnly, fNoComment, fNoSlash}

Absent == [exists |-> FALSE, data |-> <<>>]
OldDocument == [exists |-> TRUE, data |-> <<"o", "l", "d">>]

NoErr == [msg |-> "", file |-> 0]

-----------------------------------------------------------------------------
(* One @Kinds comment *)

\* strings.Contains(commentText, "@Kinds")
IsMarker(commentText) == Contains(commentText, Marker)

\* strings.Split(commentText, " ")
SpaceTokens(commentText) == Split(commentText, " ")

\* kindGroups[2:], defined when the slice expression does not panic
KindGroups(commentText) ==
    SubSeq(SpaceTokens(commentText), 3, Len(SpaceTokens(commentText)))

\* a split at the first "/" only, as strings.SplitN(kindGroup, "/", 2)
KindTokensFirstSlash(kindGroup) ==
    IF \A n \in 1..Len(kindGroup) : kindGroup[n] # "/"
    THEN <<kindGroup>>
    ELSE LET p == CHOOSE n \in 1..Len(kindGroup) :
                      /\ kindGroup[n] = "/"
                      /\ \A m \in 1..(n - 1) : kindGroup[m] # "/"
         IN  <<SubSeq(kindGroup, 1, p - 1), SubSeq(kindGroup, p + 1, Len(kindGroup))>>

\* strings.Split(kindGroup, "/")
KindTokens(kindGroup) == Split(kindGroup, "/")

\* kindGroups[2:] panics when there are fewer than two tokens, and
\* kindTokens[1] panics when a token has no "/"
MarkerPanics(commentText) ==
    \/ Len(SpaceTokens(commentText)) < 2
    \/ \E n \in 1..Len(KindGroups(commentText)) :
           Len(KindTokens(KindGroups(commentText)[n])) < 2

\* apiGroups after the loop over kindGroups
ApiGroupsOf(kindGroups) ==
    [n \in 1..Len(kindGroups) |-> KindTokens(kindGroups[n])[1]]

\* kinds after the loop over kindGroups
KindsOf(kindGroups) ==
    [n \in 1..Len(kindGroups) |-> KindTokens(kindGroups[n])[2]]

\* the PolicyCommentBlock built for a marker comment
BlockOf(commentText, desc) ==
    [APIGroups   |-> getDedupedGroups(ApiGroupsOf(KindGroups(commentText))),
     Kinds       |-> KindsOf(KindGroups(commentText)),
     Description |-> Trim(desc, " ")]

\* a row whose lists are joined with "," in place of ", "
RowCommaOnly(block) ==
    Bar \o Join(block.APIGroups, <<",">>) \o Bar \o Join(block.Kinds, <<",">>)
        \o Bar \o block.Description \o Bar \o Newline

\* fmt.Sprintf("|%s|%s|%s|\n", apiGroups, kinds, Description)
Row(block) ==
    Bar \o Join(block.APIGroups, CommaSpace) \o Bar \o Join(block.Kinds, CommaSpace)
        \o Bar \o block.Description \o Bar \o Newline

-----------------------------------------------------------------------------
(* The run of the doc command *)

Idle ==
    /\ outFile = prevOut
    /\ writes = 0
    /\ i = 0
    /\ j = 0
    /\ k = 0
    /\ description = <<>>
    /\ policyCommentBlocks = <<>>
    /\ docBlocks = <<>>
    /\ fileBlocks = <<>>
    /\ policyDocument = <<>>
    /\ result = <<>>
    /\ err = NoErr
    /\ readLog = <<>>
    /\ parseLog = <<>>
    /\ outGroups = <<>>
    /\ outGroupsAgain = <<>>

\* a directory of up to MaxFiles files
InitDir ==
    /\ files \in SeqsUpTo(FilePool, MaxFiles)
    /\ prevOut \in {Absent, OldDocument}
    /\ pc = "start"
    /\ inGroups = <<>>
    /\ Idle

\* a directory of one file with any comments
InitFile ==
    /\ \E comments \in SeqsUpTo(CommentPool, MaxComments) : files = <<RegoFile(comments)>>
    /\ prevOut = OldDocument
    /\ pc = "start"
    /\ inGroups = <<>>
    /\ Idle

Init == InitDir \/ InitFile

Fail(msg, file) ==
    /\ pc' = "error"
    /\ err' = [msg |-> msg, file |-> file]
    /\ result' = <<>>

\* getRegoFilePaths(path) returns an error
WalkFails ==
    /\ pc = "start"
    /\ Fail("get rego files", 0)
    /\ UNCHANGED <<files, prevOut, outFile, writes, i, j, description,
                   policyCommentBlocks, docBlocks, fileBlocks, k, policyDocument,
                   readLog, parseLog, inGroups, outGroups, outGroupsAgain>>

\* getRegoFilePaths(path) returns the paths
WalkSucceeds ==
    /\ pc = "start"
    /\ pc' = "loop"
    /\ i' = 1
    /\ docBlocks' = <<>>
    /\ UNCHANGED <<files, prevOut, outFile, writes, j, description,
                   policyCommentBlocks, fileBlocks, k, policyDocument,
                   result, err, readLog, parseLog, inGroups, outGroups, outGroupsAgain>>

\* a read whose error is dropped
ReadFileIgnoresError ==
    /\ pc = "loop"
    /\ i <= Len(files)
    /\ readLog' = Append(readLog, i)
    /\ pc' = "parse"
    /\ UNCHANGED <<files, prevOut, outFile, writes, i, j, description,
                   policyCommentBlocks, docBlocks, fileBlocks, k, policyDocument,
                   result, err, parseLog, inGroups, outGroups, outGroupsAgain>>

\* ioutil.ReadFile(regoFilePath)
ReadFile ==
    /\ pc = "loop"
    /\ i <= Len(files)
    /\ readLog' = Append(readLog, i)
    /\ IF files[i].readable
       THEN /\ pc' = "parse"
            /\ UNCHANGED <<err, result>>
       ELSE Fail("reading file", i)
    /\ UNCHANGED <<files, prevOut, outFile, writes, i, j, description,
                   policyCommentBlocks, docBlocks, fileBlocks, k, policyDocument,
                   parseLog, inGroups, outGroups, outGroupsAgain>>

\* a parse that keeps the description of the previous file
ParseRegoKeepsDescription ==
    /\ pc = "parse"
    /\ parseLog' = Append(parseLog, i)
    /\ IF files[i].syntaxOK
       THEN /\ pc' = "comments"
            /\ policyCommentBlocks' = <<>>
            /\ j' = 1
            /\ UNCHANGED <<err, result>>
       ELSE /\ Fail("parsing rego", i)
            /\ UNCHANGED <<policyCommentBlocks, j>>
    /\ UNCHANGED <<files, prevOut, outFile, writes, i, description, docBlocks,
                   fileBlocks, k, policyDocument, readLog, inGroups, outGroups,
                   outGroupsAgain>>

\* a parse whose syntax errors are dropped
ParseRegoIgnoresErrors ==
    /\ pc = "parse"
    /\ parseLog' = Append(parseLog, i)
    /\ pc' = "comments"
    /\ description' = <<>>
    /\ policyCommentBlocks' = <<>>
    /\ j' = 1
    /\ UNCHANGED <<files, prevOut, outFile, writes, i, docBlocks, fileBlocks, k,
                   policyDocument, result, err, readLog, inGroups, outGroups,
                   outGroupsAgain>>

\* getPolicyCommentBlocks: the parse of the file and the declaration of the locals
ParseRego ==
    /\ pc = "parse"
    /\ parseLog' = Append(parseLog, i)
    /\ IF files[i].syntaxOK
       THEN /\ pc' = "comments"
            /\ description' = <<>>
            /\ policyCommentBlocks' = <<>>
            /\ j' = 1
            /\ UNCHANGED <<err, result>>
       ELSE /\ Fail("parsing rego", i)
            /\ UNCHANGED <<description, policyCommentBlocks, j>>
    /\ UNCHANGED <<files, prevOut, outFile, writes, i, docBlocks, fileBlocks, k,
                   policyDocument, readLog, inGroups, outGroups, outGroupsAgain>>

\* one iteration of the loop over policyComments: a comment without the marker
DescriptionComment ==
    /\ pc = "comments"
    /\ j <= Len(files[i].comments)
    /\ ~IsMarker(files[i].comments[j])
    /\ description' = files[i].comments[j]
    /\ j' = j + 1
    /\ UNCHANGED <<files, prevOut, outFile, writes, pc, i, policyCommentBlocks,
                   docBlocks, fileBlocks, k, policyDocument, result, err,
                   readLog, parseLog, inGroups, outGroups, outGroupsAgain>>

\* a marker comment that uses the description up
KindsCommentResets ==
    /\ pc = "comments"
    /\ j <= Len(files[i].comments)
    /\ IsMarker(files[i].comments[j])
    /\ ~MarkerPanics(files[i].comments[j])
    /\ policyCommentBlocks' =
           Append(policyCommentBlocks, BlockOf(files[i].comments[j], description))
    /\ description' = <<>>
    /\ j' = j + 1
    /\ UNCHANGED <<files, prevOut, outFile, writes, pc, i,
                   docBlocks, fileBlocks, k, policyDocument, result, err,
                   readLog, parseLog, inGroups, outGroups, outGroupsAgain>>

\* one iteration of the loop over policyComments: a marker comment
KindsComment ==
    /\ pc = "comments"
    /\ j <= Len(files[i].comments)
    /\ IsMarker(files[i].comments[j])
    /\ ~MarkerPanics(files[i].comments[j])
    /\ policyCommentBlocks' =
           Append(policyCommentBlocks, BlockOf(files[i].comments[j], description))
    /\ j' = j + 1
    /\ UNCHANGED <<files, prevOut, outFile, writes, pc, i, description,
                   docBlocks, fileBlocks, k, policyDocument, result, err,
                   readLog, parseLog, inGroups, outGroups, outGroupsAgain>>

\* a marker comment on which kindGroups[2:] or kindTokens[1] is out of range:
\* the Go runtime panics and the process ends
KindsCommentPanics ==
    /\ pc = "comments"
    /\ j <= Len(files[i].comments)
    /\ IsMarker(files[i].comments[j])
    /\ MarkerPanics(files[i].comments[j])
    /\ pc' = "panic"
    /\ UNCHANGED <<files, prevOut, outFile, writes, i, j, description,
                   policyCommentBlocks, docBlocks, fileBlocks, k, policyDocument,
                   result, err, readLog, parseLog, inGroups, outGroups, outGroupsAgain>>

\* the blocks of a file put in front of those of the earlier files
AppendBlocksPrepends ==
    /\ pc = "comments"
    /\ j > Len(files[i].comments)
    /\ docBlocks' = policyCommentBlocks \o docBlocks
    /\ fileBlocks' = Append(fileBlocks, policyCommentBlocks)
    /\ i' = i + 1
    /\ pc' = "loop"
    /\ UNCHANGED <<files, prevOut, outFile, writes, j, description,
                   policyCommentBlocks, k, policyDocument, result, err,
                   readLog, parseLog, inGroups, outGroups, outGroupsAgain>>

\* getPolicyCommentBlocks returns and its blocks are appended
AppendBlocks ==
    /\ pc = "comments"
    /\ j > Len(files[i].comments)
    /\ docBlocks' = docBlocks \o policyCommentBlocks
    /\ fileBlocks' = Append(fileBlocks, policyCommentBlocks)
    /\ i' = i + 1
    /\ pc' = "loop"
    /\ UNCHANGED <<files, prevOut, outFile, writes, j, description,
                   policyCommentBlocks, k, policyDocument, result, err,
                   readLog, parseLog, inGroups, outGroups, outGroupsAgain>>

\* the head of the document
RenderHead ==
    /\ pc = "loop"
    /\ i > Len(files)
    /\ policyDocument' = TitleLine \o HeaderLine \o SeparatorLine
    /\ k' = 1
    /\ pc' = "render"
    /\ UNCHANGED <<files, prevOut, outFile, writes, i, j, description,
                   policyCommentBlocks, docBlocks, fileBlocks, result, err,
                   readLog, parseLog, inGroups, outGroups, outGroupsAgain>>

\* one iteration of the loop over policyCommentBlocks
RenderRow ==
    /\ pc = "render"
    /\ k <= Len(docBlocks)
    /\ policyDocument' = policyDocument \o Row(docBlocks[k])
    /\ k' = k + 1
    /\ UNCHANGED <<files, prevOut, outFile, writes, pc, i, j, description,
                   policyCommentBlocks, docBlocks, fileBlocks, result, err,
                   readLog, parseLog, inGroups, outGroups, outGroupsAgain>>

\* getPolicyDocumentation returns the document
ReturnDocument ==
    /\ pc = "render"
    /\ k > Len(docBlocks)
    /\ result' = policyDocument
    /\ pc' = "write"
    /\ UNCHANGED <<files, prevOut, outFile, writes, i, j, description,
                   policyCommentBlocks, docBlocks, fileBlocks, k, policyDocument,
                   err, readLog, parseLog, inGroups, outGroups, outGroupsAgain>>

\* ioutil.WriteFile succeeds
WriteFile ==
    /\ pc = "write"
    /\ outFile' = [exists |-> TRUE, data |-> result]
    /\ writes' = writes + 1
    /\ pc' = "done"
    /\ UNCHANGED <<files, prevOut, i, j, description, policyCommentBlocks,
                   docBlocks, fileBlocks, k, policyDocument, result, err,
                   readLog, parseLog, inGroups, outGroups, outGroupsAgain>>

\* ioutil.WriteFile fails: the file could not be opened, or was truncated
\* and not written in full
WriteFileFails ==
    /\ pc = "write"
    /\ outFile' \in {outFile, [exists |-> TRUE, data |-> <<>>]}
    /\ writes' = writes + 1
    /\ pc' = "error"
    /\ err' = [msg |-> "writing constraint", file |-> 0]
    /\ UNCHANGED <<files, prevOut, i, j, description, policyCommentBlocks,
                   docBlocks, fileBlocks, k, policyDocument, result,
                   readLog, parseLog, inGroups, outGroups, outGroupsAgain>>

Next ==
    \/ WalkFails
    \/ WalkSucceeds
    \/ ReadFile
    \/ ParseRego
    \/ DescriptionComment
    \/ KindsComment
    \/ KindsCommentPanics
    \/ AppendBlocks
    \/ RenderHead
    \/ RenderRow
    \/ ReturnDocument
    \/ WriteFile
    \/ WriteFileFails

Spec == Init /\ [][Next]_vars

-----------------------------------------------------------------------------
(* getDedupedGroups called on its own *)

InitDedup ==
    /\ inGroups \in SeqsUpTo(GroupPool, MaxGroups)
    /\ files = <<>>
    /\ prevOut = Absent
    /\ pc = "dedup"
    /\ Idle

Dedup ==
    /\ pc = "dedup"
    /\ outGroups' = getDedupedGroups(inGroups)
    /\ pc' = "again"
    /\ UNCHANGED <<files, prevOut, outFile, writes, i, j, description,
                   policyCommentBlocks, docBlocks, fileBlocks, k, policyDocument,
                   result, err, readLog, parseLog, inGroups, outGroupsAgain>>

DedupAgain ==
    /\ pc = "again"
    /\ outGroupsAgain' = getDedupedGroups(outGroups)
    /\ pc' = "deduped"
    /\ UNCHANGED <<files, prevOut, outFile, writes, i, j, description,
                   policyCommentBlocks, docBlocks, fileBlocks, k, policyDocument,
                   result, err, readLog, parseLog, inGroups, outGroups>>

NextDedup == Dedup \/ DedupAgain

SpecDedup == InitDedup /\ [][NextDedup]_vars

-----------------------------------------------------------------------------
(* Vocabulary of the properties *)

Max(S) == CHOOSE x \in S : \A y \in S : y <= x

\* the positions of the marker comments among the first n comments
MarkersUpTo(comments, n) == {p \in 1..n : IsMarker(comments[p])}

MarkerCount(comments) == Cardinality(MarkersUpTo(comments, Len(comments)))

\* the position of the n-th marker comment
NthMarker(comments, n) ==
    CHOOSE p \in 1..Len(comments) :
        /\ IsMarker(comments[p])
        /\ Cardinality(MarkersUpTo(comments, p)) = n

\* the text of the most recent comment without the marker before position p,
\* the empty string when there is none
PrecedingText(comments, p) ==
    LET prior == {q \in 1..(p - 1) : ~IsMarker(comments[q])}
    IN  IF prior = {} THEN <<>> ELSE comments[Max(prior)]

Spaces(n) == [m \in 1..n |-> " "]

\* d is text without its leading and trailing spaces
IsSpaceTrimOf(d, text) ==
    /\ \E a, b \in 0..Len(text) : text = Spaces(a) \o d \o Spaces(b)
    /\ Len(d) > 0 => (d[1] # " " /\ d[Len(d)] # " ")

\* the records of the files that getPolicyCommentBlocks has returned or is
\* building, each with the comments of its file
BuiltBlocks ==
    {<<files[f].comments, fileBlocks[f]>> : f \in 1..Len(fileBlocks)}
        \cup (IF pc \in {"comments", "panic"}
              THEN {<<files[i].comments, policyCommentBlocks>>}
              ELSE {})

\* the first position of "/" in a token that has one
FirstSlash(token) ==
    CHOOSE p \in 1..Len(token) : token[p] = "/" /\ \A q \in 1..(p - 1) : token[q] # "/"

BeforeFirstSlash(token) == SubSeq(token, 1, FirstSlash(token) - 1)

AfterFirstSlash(token) == SubSeq(token, FirstSlash(token) + 1, Len(token))

\* the part of a token between its first "/" and its second "/", or the end
\* of the token when it has only one
BetweenSlashes(token) ==
    LET rest == AfterFirstSlash(token)
    IN  IF \E p \in 1..Len(rest) : rest[p] = "/" THEN BeforeFirstSlash(rest) ELSE rest

\* the tokens of a marker comment after the first two
TokensAfterTwo(commentText) ==
    LET gaps == <<0>> \o [n \in 1..Cardinality({p \in 1..Len(commentText) : commentText[p] = " "}) |->
                      CHOOSE p \in 1..Len(commentText) :
                          /\ commentText[p] = " "
                          /\ Cardinality({q \in 1..p : commentText[q] = " "}) = n]
                   \o <<Len(commentText) + 1>>
        all == [n \in 1..(Len(gaps) - 1) |-> SubSeq(commentText, gaps[n] + 1, gaps[n + 1] - 1)]
    IN  SubSeq(all, 3, Len(all))

\* the entries of a list that match no earlier entry case-insensitively
RECURSIVE FirstOccurrences(_)
FirstOccurrences(list) ==
    IF Len(list) = 0 THEN <<>>
    ELSE LET front == SubSeq(list, 1, Len(list) - 1)
             last  == list[Len(list)]
         IN  IF \E n \in 1..Len(front) : EqualFold(front[n], last)
             THEN FirstOccurrences(front)
             ELSE Append(FirstOccurrences(front), last)

RECURSIVE Flatten(_)
Flatten(lists) ==
    IF Len(lists) = 0 THEN <<>> ELSE Flatten(SubSeq(lists, 1, Len(lists) - 1)) \o lists[Len(lists)]

\* the records of a file, from its comments alone
RecordsOf(comments) ==
    [n \in 1..MarkerCount(comments) |->
        BlockOf(comments[NthMarker(comments, n)],
                PrecedingText(comments, NthMarker(comments, n)))]

\* a list joined with ", ", built from its end
RECURSIVE CommaJoined(_)
CommaJoined(list) ==
    IF Len(list) = 0 THEN <<>>
    ELSE IF Len(list) = 1 THEN list[1]
    ELSE CommaJoined(SubSeq(list, 1, Len(list) - 1)) \o <<",", " ">> \o list[Len(list)]

TableRow(block) ==
    <<"|">> \o CommaJoined(block.APIGroups) \o <<"|">> \o CommaJoined(block.Kinds)
        \o <<"|">> \o block.Description \o <<"|", "\n">>

TableHead == TitleLine \o HeaderLine \o SeparatorLine

Returned == pc \in {"write", "done"} \/ (pc = "error" /\ err.msg = "writing constraint")

-----------------------------------------------------------------------------
(* Properties *)

\* C1: every record has as description the space-trimmed text of the most
\* recent comment without the marker that precedes its marker comment in the
\* same file, and the empty string when that file has no such comment.
C1_DescriptionOfPrecedingComment ==
    \A fb \in BuiltBlocks :
        \A n \in 1..Len(fb[2]) :
            IsSpaceTrimOf(fb[2][n].Description,
                          PrecedingText(fb[1], NthMarker(fb[1], n)))

\* a marker that opens the second file, after a first file that ends with a
\* description, and a file with two records of different descriptions
C1_Witness ==
    /\ pc = "done"
    /\ Len(files) = 2
    /\ files[1] = fDescOnly
    /\ files[2] = fTwoBlocks
    /\ fileBlocks[2][1].Description = <<"d", "A">>
    /\ fileBlocks[2][2].Description = <<"d", " ", "B">>

\* C2: a failure to enumerate, read or parse leaves the output file as the
\* previous run left it; the output file is written at most once, and only
\* after every file has been read and parsed successfully.
C2_NoWriteAfterFailure ==
    /\ (pc = "error" /\ err.msg \in {"get rego files", "reading file", "parsing rego"})
           => (outFile = prevOut /\ writes = 0)
    /\ writes <= 1
    /\ outFile # prevOut => writes = 1
    /\ writes = 1 =>
           /\ readLog = [f \in 1..Len(files) |-> f]
           /\ parseLog = [f \in 1..Len(files) |-> f]
           /\ \A f \in 1..Len(files) : files[f].readable /\ files[f].syntaxOK

\* the second file fails after the first one was parsed
C2_Witness ==
    /\ pc = "error"
    /\ err = [msg |-> "parsing rego", file |-> 2]
    /\ Len(fileBlocks[1]) = 2
    /\ prevOut = OldDocument

\* C3: the data rows of the table are the records of the files, in file
\* order and within a file in marker order, each file's records depending on
\* that file alone.
C3_RowsInFileOrder ==
    /\ pc \in {"render", "write", "done"} =>
           docBlocks = Flatten([f \in 1..Len(files) |-> RecordsOf(files[f].comments)])
    /\ Returned =>
           result = TableHead \o
               Flatten([f \in 1..Len(files) |->
                   Flatten([n \in 1..MarkerCount(files[f].comments) |->
                       Row(RecordsOf(files[f].comments)[n])])])

C3_Witness ==
    /\ pc = "done"
    /\ files = <<fTwoBlocks, fMarkerOnly>>
    /\ Len(docBlocks) = 3

\* C4 as stated: the i-th kind is the part of the i-th token after its first
\* "/", and the groups are the case-insensitive dedup of the parts before it.
C4_KindAfterFirstSlash ==
    \A fb \in BuiltBlocks :
        \A n \in 1..Len(fb[2]) :
            LET tokens == TokensAfterTwo(fb[1][NthMarker(fb[1], n)])
            IN  /\ fb[2][n].Kinds = [m \in 1..Len(tokens) |-> AfterFirstSlash(tokens[m])]
                /\ fb[2][n].APIGroups =
                       FirstOccurrences([m \in 1..Len(tokens) |-> BeforeFirstSlash(tokens[m])])

\* C4 (amended): the i-th kind is the part of the i-th token between its first
\* "/" and its second "/" (to the end of the token when it has one "/"), in
\* token order with repeats kept; the groups are the case-insensitive dedup of
\* the parts before the first "/".
C4_KindBetweenSlashes ==
    \A fb \in BuiltBlocks :
        \A n \in 1..Len(fb[2]) :
            LET tokens == TokensAfterTwo(fb[1][NthMarker(fb[1], n)])
            IN  /\ fb[2][n].Kinds = [m \in 1..Len(tokens) |-> BetweenSlashes(tokens[m])]
                /\ fb[2][n].APIGroups =
                       FirstOccurrences([m \in 1..Len(tokens) |-> BeforeFirstSlash(tokens[m])])

\* a record of a token with two "/", after a record with a repeated kind
C4_Witness ==
    /\ pc = "comments"
    /\ files[1].comments = <<cKindsDup, cKinds, cSlashes>>
    /\ Len(policyCommentBlocks) = 3
    /\ policyCommentBlocks[1].Kinds = <<<<"P", "o", "d">>, <<"P", "o", "d">>>>
    /\ policyCommentBlocks[1].APIGroups = <<<<"a", "p", "p", "s">>>>
    /\ policyCommentBlocks[2].APIGroups = <<<<"a", "p", "p", "s">>, <<"c", "o", "r", "e">>>>
    /\ policyCommentBlocks[3].Kinds = <<<<"b">>>>

\* C5: the output of getDedupedGroups has no two entries equal under case
\* folding, every input entry matches an output entry, the output is the
\* first occurrence of each class in input order and casing, and deduplicating
\* the output returns it unchanged.
C5_Dedup ==
    /\ pc \in {"again", "deduped"} =>
           /\ \A m, n \in 1..Len(outGroups) : EqualFold(outGroups[m], outGroups[n]) => m = n
           /\ \A m \in 1..Len(inGroups) :
                  \E n \in 1..Len(outGroups) : EqualFold(inGroups[m], outGroups[n])
           /\ outGroups = FirstOccurrences(inGroups)
    /\ pc = "deduped" => outGroupsAgain = outGroups

C5_Witness ==
    /\ pc = "deduped"
    /\ inGroups = <<<<"a", "p", "p", "s">>, <<"A", "p", "p", "s">>, <<"A", "P", "P", "S">>>>
    /\ outGroups = <<<<"a", "p", "p", "s">>>>

\* C6 as stated: the record of a marker comment that directly follows another
\* marker comment has an empty description.
C6_SecondMarkerEmpty ==
    \A fb \in BuiltBlocks :
        \A n \in 2..Len(fb[2]) :
            NthMarker(fb[1], n) = NthMarker(fb[1], n - 1) + 1
                => fb[2][n].Description = <<>>

\* C6 (amended): the record of a marker comment that directly follows another
\* marker comment has the same description as the record of that earlier
\* marker comment.
C6_SecondMarkerSameDescription ==
    \A fb \in BuiltBlocks :
        \A n \in 2..Len(fb[2]) :
            NthMarker(fb[1], n) = NthMarker(fb[1], n - 1) + 1
                => fb[2][n].Description = fb[2][n - 1].Description

C6_Witness ==
    /\ pc = "comments"
    /\ files[1].comments = <<cDescA, cKinds, cKindsDup>>
    /\ Len(policyCommentBlocks) = 2
    /\ policyCommentBlocks[2].Description = <<"d", "A">>

\* C7: a file that parses without syntax errors never makes
\* getPolicyCommentBlocks fail, whatever the tokens of its marker comments.
C7_MalformedMarkerDoesNotFail ==
    pc = "panic" => ~files[i].syntaxOK

\* C8: the number of records equals the number of marker comments handled.
C8_OneRecordPerMarker ==
    /\ \A f \in 1..Len(fileBlocks) :
           Len(fileBlocks[f]) = MarkerCount(files[f].comments)
    /\ pc = "comments" =>
           Len(policyCommentBlocks) = Cardinality(MarkersUpTo(files[i].comments, j - 1))
    /\ pc = "panic" =>
           Len(policyCommentBlocks) = Cardinality(MarkersUpTo(files[i].comments, j))

\* C9: the document is the title line, a blank line, the header line, the
\* separator line and one row per record in input order, each row being
\* "|" groups joined with ", " "|" kinds joined with ", " "|" description "|".
C9_DocumentShape ==
    Returned =>
        /\ result = TableHead \o Flatten([n \in 1..Len(docBlocks) |-> TableRow(docBlocks[n])])
        /\ Cardinality({p \in 1..Len(result) : result[p] = "\n"}) = 4 + Len(docBlocks)

C9_Witness ==
    /\ pc = "done"
    /\ Len(docBlocks) = 2
    /\ Len(docBlocks[1].APIGroups) = 2
    /\ Len(docBlocks[2].Kinds) = 2

\* C10: the files are read and parsed one after another in enumeration order;
\* at a read or parse failure the error is that of the first failing file, no
\* later file has been read or parsed, the returned document is empty, and
\* only files that were read and parsed without error have contributed records.
C10_StopsAtFirstFailure ==
    /\ readLog = [f \in 1..Len(readLog) |-> f]
    /\ parseLog = [f \in 1..Len(parseLog) |-> f]
    /\ Len(parseLog) <= Len(readLog)
    /\ \A f \in 1..Len(fileBlocks) : files[f].readable /\ files[f].syntaxOK
    /\ (pc = "error" /\ err.msg \in {"reading file", "parsing rego"}) =>
           /\ ~(files[err.file].readable /\ files[err.file].syntaxOK)
           /\ \A f \in 1..(err.file - 1) : files[f].readable /\ files[f].syntaxOK
           /\ Len(readLog) = err.file
           /\ Len(parseLog) = IF files[err.file].readable THEN err.file ELSE err.file - 1
           /\ Len(fileBlocks) = err.file - 1
           /\ docBlocks = Flatten(fileBlocks)
           /\ result = <<>>

C10_Witness ==
    /\ pc = "error"
    /\ err = [msg |-> "parsing rego", file |-> 1]
    /\ files = <<fSyntaxErr, fTwoBlocks>>
    /\ readLog = <<1>>
    /\ docBlocks = <<>>

====
